---- MODULE Spec2Model ----
(***************************************************************************)
(* The pull command of cursor-rules (src/bin/rules-pull.js, lines 1-309):  *)
(* option checks, temp checkout, backup, and the merge of the remote rules *)
(* file with the local one under the simple / smart / manual strategies.   *)
(*                                                                         *)
(* A text is the sequence of its lines: the string is the lines joined by  *)
(* "\n", so the empty string is <<"">> and a trailing newline is a final   *)
(* empty line.  With that reading the template literals of the source are  *)
(* plain concatenations of line sequences.  A file that does not exist is  *)
(* the empty sequence.                                                     *)
(***************************************************************************)
EXTENDS Integers, Sequences, FiniteSets, TLC

MaxLen == 2        \* longest enumerated text, in lines

Lines == {"", "A", "======="}

Absent == << >>

\* the texts of the three-way scenarios (last synced "A\nB\nC")
ScenarioBase == <<"A", "B", "C">>
ScenarioTexts == {<<"A", "X", "C">>, <<"A", "B", "Y">>, <<"A", "Z", "C">>}

Texts == UNION {[1..n -> Lines] : n \in 1..MaxLen} \cup ScenarioTexts

\* what the user may type into the editor
EditTexts == {<<"A">>, <<"A", "X", "Y">>}

RemoteMarker == "<<<<<<< REMOTE"
MidMarker == "======="
LocalMarker == ">>>>>>> LOCAL"
Markers == {RemoteMarker, MidMarker, LocalMarker}

Rule == "# ==================================================="

SentinelHeading == "# YOUR MERGED VERSION BELOW (edit as needed)"

-----------------------------------------------------------------------------
(* Pure functions of the source *)

\* variant: the validation lets an unknown strategy through
ValidStrategiesLax == {"simple", "smart", "manual", "auto"}

ValidStrategies == {"simple", "smart", "manual"}

Separator ==
  <<"", "# Local additions below", "# ========================================", "">>

\* variant: local text first
concatContentSwapped(remoteText, localText) ==
  localText \o Separator \o remoteText

concatContent(remoteText, localText) == remoteText \o Separator \o localText

\* variant: the closing marker is left out
generateConflictMarkersOpen(remoteText, localText) ==
  <<RemoteMarker>> \o remoteText \o <<MidMarker>> \o localText \o <<"">>

generateConflictMarkers(remoteText, localText) ==
  <<RemoteMarker>> \o remoteText \o <<MidMarker>> \o localText
    \o <<LocalMarker, "">>

generateManualMergeFile(remoteText, localText) ==
  << "# MANUAL MERGE REQUIRED",
     Rule,
     "# Instructions:",
     "# 1. Below you'll find both the remote and local versions",
     "# 2. Edit this file to create the merged version you want",
     "# 3. Save and close when you're done",
     Rule,
     "",
     "# REMOTE VERSION",
     Rule >>
  \o remoteText
  \o << "", "# LOCAL VERSION", Rule >>
  \o localText
  \o << "", SentinelHeading, Rule, "", "" >>

commonAncestor == <<"">>

(* The three-way-merge package is not part of the repository; its contract  *)
(* is taken from the specification: a side that did not change yields to    *)
(* the other, a span changed differently on both sides is a conflict region.*)
Clash(base, remoteText, localText, i) ==
  /\ remoteText[i] # localText[i]
  /\ remoteText[i] # base[i]
  /\ localText[i] # base[i]

ThreeWayMerge(base, remoteText, localText) ==
  IF remoteText = localText THEN
    [result |-> remoteText, conflict |-> FALSE, regions |-> 0]
  ELSE IF remoteText = base THEN
    [result |-> localText, conflict |-> FALSE, regions |-> 0]
  ELSE IF localText = base THEN
    [result |-> remoteText, conflict |-> FALSE, regions |-> 0]
  ELSE IF Len(remoteText) = Len(base) /\ Len(localText) = Len(base) THEN
    LET n == Len(base)
        bad == {i \in 1..n : Clash(base, remoteText, localText, i)}
        starts == {i \in bad : i = 1 \/ (i - 1) \notin bad}
    IN [result |-> [i \in 1..n |->
                      IF remoteText[i] = base[i] THEN localText[i]
                      ELSE remoteText[i]],
        conflict |-> bad # {},
        regions |-> Cardinality(starts)]
  ELSE
    [result |-> remoteText, conflict |-> TRUE, regions |-> 1]

\* the documents the user can leave in the editor: untouched, with a text
\* typed below the sentinel heading, or replaced by a text altogether
Edits(doc) ==
  {doc} \cup {SubSeq(doc, 1, Len(doc) - 1) \o m : m \in EditTexts}
        \cup EditTexts

-----------------------------------------------------------------------------
VARIABLES
  pc,              \* position in the script / main()
  mergeStrategy,   \* options.mergeStrategy (reassigned by the smart fallback)
  requested,       \* the --merge-strategy given on the command line
  force,           \* options.force
  backup,          \* options.backup
  private,         \* options.private
  token,           \* a token is available (--token or GITHUB_TOKEN)
  tempDir,         \* .cursor-rules-temp: "absent", "stale" or "fresh"
  tempFile,        \* manual_merge.mdc inside tempDir
  cloned,          \* git clone has run
  repoFile,        \* options.path inside the checkout
  dest,            \* the file at options.dest
  original,        \* the file at options.dest when the run started
  backupFile,      \* the backup copy
  remoteContent,
  localContent,
  localFileExists,
  conflict,        \* the smart merge reported a conflict
  conflictRegions, \* number of conflict regions of that merge
  action,          \* answer to the decision prompt
  editedContent,   \* the edited manual-merge document, once read back
  writes,          \* successful writes to options.dest
  outcome,         \* what the run reported
  failure,         \* the step that failed, if any
  exitCode         \* -1 while running

pullVars == << pc, mergeStrategy, requested, force, backup, private, token,
               tempDir, tempFile, cloned, repoFile, dest, original, backupFile,
               remoteContent, localContent, localFileExists, conflict,
               conflictRegions, action, editedContent, writes, outcome,
               failure, exitCode >>

\* the push command (lines 311-543 of the same source file)
VARIABLES
  pushPc,          \* position in the push script / its main()
  pushToken,       \* a token is available (--token or GITHUB_TOKEN)
  pr,              \* options.pr (false with --no-pr)
  source,          \* the file at options.source
  sourceAtStart,   \* the file at options.source when push started
  pushTempDir,     \* .cursor-rules-temp: "absent", "stale" or "fresh"
  checkoutFile,    \* options.path inside the checkout (repoFilePath)
  fileModified,
  committed,       \* content of options.path in the commit made, if any
  pullRequest,     \* the body of the pull request created, if any
  events,          \* the git / GitHub operations done so far, in order
  pushOutcome,     \* what the run reported
  pushFailure,     \* the step that failed, if any
  pushExit         \* -1 while running

pushVars == << pushPc, pushToken, pr, source, sourceAtStart, pushTempDir,
               checkoutFile, fileModified, committed, pullRequest, events,
               pushOutcome, pushFailure, pushExit >>

\* a second run of pull on the same files
VARIABLES
  run,             \* 1 or 2
  first            \* what the first run read, was told and left behind

twiceVars == << run, first >>

\* another process of the tool running in the same working directory
VARIABLES
  otherPc,         \* "idle" (none), "mktemp", "clone", "work" or "done"
  upstream         \* the file the repository holds at options.path

concVars == << otherPc, upstream >>

\* what the pull command never touches
otherVars == << pushVars, twiceVars, concVars >>

vars == << pullVars, pushVars, twiceVars, concVars >>

optVars == << mergeStrategy, requested, force, backup, private, token >>
fsVars == << tempDir, tempFile, cloned, repoFile, dest, original, backupFile >>
localVars == << remoteContent, localContent, localFileExists, conflict,
                conflictRegions, action, editedContent >>
endVars == << outcome, failure, exitCode >>

NoRun ==
  [dest |-> Absent, remoteContent |-> Absent, action |-> "none",
   editedContent |-> Absent, outcome |-> "none", failure |-> "none",
   exitCode |-> -1]

\* no earlier run, and no other process in the working directory
OneRun ==
  /\ run = 1
  /\ first = NoRun
  /\ otherPc = "idle"
  /\ upstream = Absent

\* the push command is not running
PushIdle ==
  /\ pushPc = "idle"
  /\ pushToken = FALSE
  /\ pr = FALSE
  /\ source = Absent
  /\ sourceAtStart = Absent
  /\ pushTempDir = "absent"
  /\ checkoutFile = Absent
  /\ fileModified = TRUE
  /\ committed = Absent
  /\ pullRequest = Absent
  /\ events = << >>
  /\ pushOutcome = "none"
  /\ pushFailure = "none"
  /\ pushExit = -1

Init ==
  /\ pc = "checkToken"
  /\ mergeStrategy \in ValidStrategies \cup {"auto"}
  /\ requested = mergeStrategy
  /\ force \in BOOLEAN
  /\ backup \in BOOLEAN
  /\ private \in BOOLEAN
  /\ token \in BOOLEAN
  /\ tempDir \in {"absent", "stale"}
  /\ tempFile = Absent
  /\ cloned = FALSE
  /\ repoFile = Absent
  /\ dest \in Texts \cup {Absent}
  /\ original = dest
  /\ backupFile = Absent
  /\ remoteContent = Absent
  /\ localContent = <<"">>
  /\ localFileExists = FALSE
  /\ conflict = FALSE
  /\ conflictRegions = 0
  /\ action = "none"
  /\ editedContent = Absent
  /\ writes = 0
  /\ outcome = "none"
  /\ failure = "none"
  /\ exitCode = -1
  /\ PushIdle
  /\ OneRun

\* process.exit(1): the process ends at once, no finally block runs
Exit1(what, step) ==
  /\ pc' = "done"
  /\ exitCode' = 1
  /\ outcome' = what
  /\ failure' = step

\* the catch of main(): report and process.exit(1)
Throw(step) == Exit1("error", step)

\* fs.writeFileSync(options.dest, text) that succeeds
WriteDest(text) ==
  /\ dest' = text
  /\ writes' = writes + 1

-----------------------------------------------------------------------------
(* Top-level script *)

CheckToken ==
  /\ pc = "checkToken"
  /\ IF private /\ ~token
       THEN Exit1("tokenRequired", "options")
       ELSE pc' = "validate" /\ UNCHANGED endVars
  /\ UNCHANGED << optVars, fsVars, localVars, writes >>
  /\ UNCHANGED otherVars

ValidateStrategy ==
  /\ pc = "validate"
  /\ IF mergeStrategy \notin ValidStrategies
       THEN Exit1("invalidStrategy", "options")
       ELSE pc' = "mktemp" /\ UNCHANGED endVars
  /\ UNCHANGED << optVars, fsVars, localVars, writes >>
  /\ UNCHANGED otherVars

CreateTempDir ==
  /\ pc = "mktemp"
  /\ tempDir' = "fresh"
  /\ tempFile' = Absent
  /\ cloned' = FALSE
  /\ repoFile' = Absent
  /\ pc' = "clone"
  /\ UNCHANGED << optVars, dest, original, backupFile,
                  localVars, writes, endVars >>
  /\ UNCHANGED otherVars

-----------------------------------------------------------------------------
(* main() up to the comparison *)

\* what the repository may hold at options.path: anything, but a second
\* run finds what the first run read
RemoteFiles ==
  IF run = 2 /\ first.remoteContent # Absent
    THEN {first.remoteContent}
    ELSE IF otherPc # "idle"
      THEN {upstream}
      ELSE Texts \cup {Absent}

\* git clone creates the directory or fills the empty one; it refuses a
\* directory that holds the checkout of another process
Clone ==
  /\ pc = "clone"
  /\ \/ /\ tempDir # "other"
        /\ tempDir' = "fresh"
        /\ cloned' = TRUE
        /\ repoFile' \in RemoteFiles
        /\ pc' = "checkout"
        /\ UNCHANGED endVars
     \/ /\ Throw("clone")
        /\ UNCHANGED << tempDir, cloned, repoFile >>
  /\ UNCHANGED << optVars, tempFile, dest, original, backupFile,
                  localVars, writes >>
  /\ UNCHANGED otherVars

\* cd ${tempDir} fails when the directory is gone
Checkout ==
  /\ pc = "checkout"
  /\ \/ tempDir # "absent" /\ pc' = "checkRemote" /\ UNCHANGED endVars
     \/ Throw("checkout")
  /\ UNCHANGED << optVars, fsVars, localVars, writes >>
  /\ UNCHANGED otherVars

CheckRemoteFile ==
  /\ pc = "checkRemote"
  /\ IF repoFile = Absent
       THEN Exit1("remoteNotFound", "missing")
       ELSE pc' = "readRemote" /\ UNCHANGED endVars
  /\ UNCHANGED << optVars, fsVars, localVars, writes >>
  /\ UNCHANGED otherVars

ReadRemote ==
  /\ pc = "readRemote"
  /\ \/ /\ repoFile # Absent
        /\ remoteContent' = repoFile
        /\ pc' = "readLocal"
        /\ UNCHANGED endVars
     \/ /\ Throw("read")
        /\ UNCHANGED remoteContent
  /\ UNCHANGED << optVars, fsVars, localContent, localFileExists, conflict,
                  conflictRegions, action, editedContent, writes >>
  /\ UNCHANGED otherVars

ReadLocal ==
  /\ pc = "readLocal"
  /\ localFileExists' = (dest # Absent)
  /\ \/ /\ localContent' = IF dest # Absent THEN dest ELSE <<"">>
        /\ pc' = IF dest # Absent /\ backup THEN "backup" ELSE "compare"
        /\ UNCHANGED endVars
     \/ /\ dest # Absent
        /\ Throw("read")
        /\ UNCHANGED localContent
  /\ UNCHANGED << optVars, fsVars, remoteContent, conflict, conflictRegions,
                  action, editedContent, writes >>
  /\ UNCHANGED otherVars

\* variant: the backup step copies nothing
BackupSkipped ==
  /\ pc = "backup"
  /\ pc' = "compare"
  /\ UNCHANGED << optVars, fsVars, localVars, writes, endVars >>
  /\ UNCHANGED otherVars

Backup ==
  /\ pc = "backup"
  /\ \/ /\ backupFile' = dest
        /\ pc' = "compare"
        /\ UNCHANGED endVars
     \/ /\ Throw("backup")
        /\ UNCHANGED backupFile
  /\ UNCHANGED << optVars, tempDir, tempFile, cloned, repoFile, dest,
                  original, localVars, writes >>
  /\ UNCHANGED otherVars

-----------------------------------------------------------------------------
(* main(): overwrite, fast path, and the strategy switch *)

\* variant: one-line files are never taken as equal
IdenticalLong(localText, remoteText) ==
  localText = remoteText /\ Len(localText) > 1

Identical(localText, remoteText) == localText = remoteText

\* the finally block of main(), and cleanup() itself
cleanup ==
  /\ tempDir' = "absent"
  /\ tempFile' = Absent

\* variant: --force is ignored when a local file exists
OverwriteNewOnly ==
  /\ pc = "compare"
  /\ \/ /\ ~localFileExists
        /\ WriteDest(remoteContent)
        /\ outcome' = "created"
     \/ /\ localFileExists /\ force
        /\ WriteDest(concatContent(remoteContent, localContent))
        /\ outcome' = "overwrote"
  /\ pc' = "finish"
  /\ UNCHANGED << failure, exitCode >>
  /\ UNCHANGED << optVars, tempDir, tempFile, cloned, repoFile, original,
                  backupFile, localVars >>
  /\ UNCHANGED otherVars

Overwrite ==
  /\ pc = "compare"
  /\ ~localFileExists \/ force
  /\ \/ /\ WriteDest(remoteContent)
        /\ outcome' = IF localFileExists THEN "overwrote" ELSE "created"
        /\ pc' = "finish"
        /\ UNCHANGED << failure, exitCode >>
     \/ /\ Throw("write")
        /\ UNCHANGED << dest, writes >>
  /\ UNCHANGED << optVars, tempDir, tempFile, cloned, repoFile, original,
                  backupFile, localVars >>
  /\ UNCHANGED otherVars

UpToDate ==
  /\ pc = "compare"
  /\ localFileExists /\ ~force
  /\ Identical(localContent, remoteContent)
  /\ outcome' = "upToDate"
  /\ cleanup
  /\ exitCode' = 0
  /\ pc' = "done"
  /\ UNCHANGED << optVars, cloned, repoFile, dest, original, backupFile,
                  localVars, writes, failure >>
  /\ UNCHANGED otherVars

\* variant: the separator carries the time of the run
MergeSimpleStamped ==
  /\ pc = "compare"
  /\ localFileExists /\ ~force
  /\ ~Identical(localContent, remoteContent)
  /\ mergeStrategy = "simple"
  /\ WriteDest(remoteContent
                 \o <<"", IF run = 1 THEN "# Merged at 1" ELSE "# Merged at 2">>
                 \o Separator \o localContent)
  /\ outcome' = "mergedSimple"
  /\ pc' = "finish"
  /\ UNCHANGED << failure, exitCode >>
  /\ UNCHANGED << optVars, tempDir, tempFile, cloned, repoFile, original,
                  backupFile, localVars >>
  /\ UNCHANGED otherVars

MergeSimple ==
  /\ pc = "compare"
  /\ localFileExists /\ ~force
  /\ ~Identical(localContent, remoteContent)
  /\ mergeStrategy = "simple"
  /\ \/ /\ WriteDest(concatContent(remoteContent, localContent))
        /\ outcome' = "mergedSimple"
        /\ pc' = "finish"
        /\ UNCHANGED << failure, exitCode >>
     \/ /\ Throw("write")
        /\ UNCHANGED << dest, writes >>
  /\ UNCHANGED << optVars, tempDir, tempFile, cloned, repoFile, original,
                  backupFile, localVars >>
  /\ UNCHANGED otherVars

\* variant: an error in case 'smart' ends the run
SmartFallbackAbort(step) ==
  /\ Throw(step)
  /\ UNCHANGED << mergeStrategy, dest, writes >>

\* the catch of case 'smart': warn and switch to the interactive flow
SmartFallback(step) ==
  /\ mergeStrategy' = "manual"
  /\ failure' = step
  /\ outcome' = "smartFailed"
  /\ pc' = "prompt"
  /\ UNCHANGED << dest, writes, exitCode >>

MergeSmart ==
  /\ pc = "compare"
  /\ localFileExists /\ ~force
  /\ ~Identical(localContent, remoteContent)
  /\ mergeStrategy = "smart"
  /\ \/ \* threeWayMerge throws
        /\ SmartFallback("merge")
        /\ UNCHANGED << conflict, conflictRegions >>
     \/ LET m == ThreeWayMerge(commonAncestor, remoteContent, localContent)
            text == IF m.conflict
                      THEN generateConflictMarkers(remoteContent, localContent)
                      ELSE m.result
        IN /\ conflict' = m.conflict
           /\ conflictRegions' = m.regions
           /\ \/ /\ WriteDest(text)
                 /\ outcome' = IF m.conflict THEN "conflictMarkers"
                                             ELSE "mergedSmart"
                 /\ pc' = "finish"
                 /\ UNCHANGED << mergeStrategy, failure, exitCode >>
              \/ SmartFallback("write")
  /\ UNCHANGED << requested, force, backup, private, token, tempDir, tempFile,
                  cloned, repoFile, original, backupFile, remoteContent,
                  localContent, localFileExists, action, editedContent >>
  /\ UNCHANGED otherVars

\* case 'manual': break
MergeManual ==
  /\ pc = "compare"
  /\ localFileExists /\ ~force
  /\ ~Identical(localContent, remoteContent)
  /\ mergeStrategy = "manual"
  /\ pc' = "finish"
  /\ UNCHANGED << optVars, fsVars, localVars, writes, endVars >>
  /\ UNCHANGED otherVars

-----------------------------------------------------------------------------
(* The interactive flow inside case 'smart' *)

Actions == {"remote", "local", "concat", "manual"}

Prompt ==
  /\ pc = "prompt"
  /\ mergeStrategy = "manual"
  /\ \/ /\ action' \in Actions
        /\ pc' = "apply"
        /\ UNCHANGED endVars
     \/ /\ Throw("prompt")
        /\ UNCHANGED action
  /\ UNCHANGED << optVars, fsVars, remoteContent, localContent,
                  localFileExists, conflict, conflictRegions, editedContent,
                  writes >>
  /\ UNCHANGED otherVars

\* variant: 'remote' writes the concatenation
KeepRemoteConcat ==
  /\ pc = "apply" /\ action = "remote"
  /\ WriteDest(concatContent(remoteContent, localContent))
  /\ outcome' = "keptRemote"
  /\ pc' = "finish"
  /\ UNCHANGED << failure, exitCode >>
  /\ UNCHANGED << optVars, tempDir, tempFile, cloned, repoFile, original,
                  backupFile, localVars >>
  /\ UNCHANGED otherVars

KeepRemote ==
  /\ pc = "apply" /\ action = "remote"
  /\ \/ /\ WriteDest(remoteContent)
        /\ outcome' = "keptRemote"
        /\ pc' = "finish"
        /\ UNCHANGED << failure, exitCode >>
     \/ /\ Throw("write")
        /\ UNCHANGED << dest, writes >>
  /\ UNCHANGED << optVars, tempDir, tempFile, cloned, repoFile, original,
                  backupFile, localVars >>
  /\ UNCHANGED otherVars

KeepLocal ==
  /\ pc = "apply" /\ action = "local"
  /\ outcome' = "keptLocal"
  /\ pc' = "finish"
  /\ UNCHANGED << optVars, fsVars, localVars, writes, failure, exitCode >>
  /\ UNCHANGED otherVars

Concatenate ==
  /\ pc = "apply" /\ action = "concat"
  /\ \/ /\ WriteDest(concatContent(remoteContent, localContent))
        /\ outcome' = "concatenated"
        /\ pc' = "finish"
        /\ UNCHANGED << failure, exitCode >>
     \/ /\ Throw("write")
        /\ UNCHANGED << dest, writes >>
  /\ UNCHANGED << optVars, tempDir, tempFile, cloned, repoFile, original,
                  backupFile, localVars >>
  /\ UNCHANGED otherVars

\* case 'manual' of the prompt: write manual_merge.mdc into the temp dir
WriteManualMergeFile ==
  /\ pc = "apply" /\ action = "manual"
  /\ \/ /\ tempDir # "absent"
        /\ tempFile' = generateManualMergeFile(remoteContent, localContent)
        /\ pc' = "editor"
        /\ UNCHANGED endVars
     \/ /\ Throw("write")
        /\ UNCHANGED tempFile
  /\ UNCHANGED << optVars, tempDir, cloned, repoFile, dest, original,
                  backupFile, localVars, writes >>
  /\ UNCHANGED otherVars

\* the catch around the editor and the confirmation
EditorCatch(step) ==
  /\ outcome' = "editorError"
  /\ failure' = step
  /\ pc' = "finish"
  /\ UNCHANGED exitCode

OpenEditor ==
  /\ pc = "editor"
  /\ \/ /\ tempFile # Absent
        /\ tempFile' \in Edits(tempFile)
        /\ pc' = "confirm"
        /\ UNCHANGED endVars
     \/ /\ EditorCatch("editor")
        /\ UNCHANGED tempFile
  /\ UNCHANGED << optVars, tempDir, cloned, repoFile, dest, original,
                  backupFile, localVars, writes >>
  /\ UNCHANGED otherVars

Confirm ==
  /\ pc = "confirm"
  /\ \/ \* confirmed: the edited file is read and written to the destination
        /\ tempFile # Absent
        /\ editedContent' = tempFile
        /\ WriteDest(editedContent')
        /\ outcome' = "manualDone"
        /\ pc' = "finish"
        /\ UNCHANGED << failure, exitCode >>
     \/ \* not confirmed
        /\ outcome' = "cancelled"
        /\ pc' = "finish"
        /\ UNCHANGED << editedContent, dest, writes, failure, exitCode >>
     \/ \* the prompt or the read throws
        \E step \in {"prompt", "read"} :
          /\ EditorCatch(step)
          /\ UNCHANGED << editedContent, dest, writes >>
     \/ \* the write throws
        /\ tempFile # Absent
        /\ editedContent' = tempFile
        /\ EditorCatch("write")
        /\ UNCHANGED << dest, writes >>
  /\ UNCHANGED << optVars, tempDir, tempFile, cloned, repoFile, original,
                  backupFile, remoteContent, localContent, localFileExists,
                  conflict, conflictRegions, action >>
  /\ UNCHANGED otherVars

\* 'Successfully pulled rules from GitHub', then the finally block
Finish ==
  /\ pc = "finish"
  /\ cleanup
  /\ exitCode' = 0
  /\ pc' = "done"
  /\ UNCHANGED << optVars, cloned, repoFile, dest, original, backupFile,
                  localVars, writes, outcome, failure >>
  /\ UNCHANGED otherVars

Next ==
  \/ CheckToken \/ ValidateStrategy \/ CreateTempDir
  \/ Clone \/ Checkout \/ CheckRemoteFile \/ ReadRemote \/ ReadLocal \/ Backup
  \/ Overwrite \/ UpToDate \/ MergeSimple \/ MergeSmart \/ MergeManual
  \/ Prompt \/ KeepRemote \/ KeepLocal \/ Concatenate \/ WriteManualMergeFile
  \/ OpenEditor \/ Confirm \/ Finish

Spec == Init /\ [][Next]_vars

TypeOK ==
  /\ pc \in {"checkToken", "validate", "mktemp", "clone", "checkout",
             "checkRemote", "readRemote", "readLocal", "backup", "compare",
             "prompt", "apply", "editor", "confirm", "finish", "done"}
  /\ exitCode \in {-1, 0, 1}
  /\ writes \in 0..2
  /\ (pc = "done") = (exitCode # -1)

-----------------------------------------------------------------------------
(* Two runs of pull, one after the other, on the same local file *)

\* local files of the two-run specification
TwiceTexts == {t \in Texts : Len(t) = 1} \cup ScenarioTexts

InitTwice ==
  /\ Init
  /\ ~private
  /\ ~token
  /\ tempDir = "absent"
  /\ dest \in TwiceTexts \cup {Absent}

\* The first process has ended; the local file is put back as it was and the
\* command is started again with the same options.  What the first run left
\* on disk (temp directory, backup) stays.
Rerun ==
  /\ pc = "done"
  /\ run = 1
  /\ run' = 2
  /\ first' = [dest |-> dest, remoteContent |-> remoteContent,
               action |-> action, editedContent |-> editedContent,
               outcome |-> outcome, failure |-> failure,
               exitCode |-> exitCode]
  /\ pc' = "checkToken"
  /\ mergeStrategy' = requested
  /\ tempDir' = IF tempDir = "fresh" THEN "stale" ELSE tempDir
  /\ cloned' = FALSE
  /\ repoFile' = Absent
  /\ dest' = original
  /\ remoteContent' = Absent
  /\ localContent' = <<"">>
  /\ localFileExists' = FALSE
  /\ conflict' = FALSE
  /\ conflictRegions' = 0
  /\ action' = "none"
  /\ editedContent' = Absent
  /\ writes' = 0
  /\ outcome' = "none"
  /\ failure' = "none"
  /\ exitCode' = -1
  /\ UNCHANGED << requested, force, backup, private, token, tempFile,
                  original, backupFile, pushVars, concVars >>

NextTwice == Next \/ Rerun

SpecTwice == InitTwice /\ [][NextTwice]_vars

-----------------------------------------------------------------------------
(* Pull repeated: the second run reads the file the first run wrote *)

\* The first process has ended and the command is started again with the same
\* options on the files as the first run left them.
Repull ==
  /\ pc = "done"
  /\ run = 1
  /\ run' = 2
  /\ first' = [dest |-> dest, remoteContent |-> remoteContent,
               action |-> action, editedContent |-> editedContent,
               outcome |-> outcome, failure |-> failure,
               exitCode |-> exitCode]
  /\ pc' = "checkToken"
  /\ mergeStrategy' = requested
  /\ tempDir' = IF tempDir = "fresh" THEN "stale" ELSE tempDir
  /\ cloned' = FALSE
  /\ repoFile' = Absent
  /\ original' = dest
  /\ remoteContent' = Absent
  /\ localContent' = <<"">>
  /\ localFileExists' = FALSE
  /\ conflict' = FALSE
  /\ conflictRegions' = 0
  /\ action' = "none"
  /\ editedContent' = Absent
  /\ writes' = 0
  /\ outcome' = "none"
  /\ failure' = "none"
  /\ exitCode' = -1
  /\ UNCHANGED << requested, force, backup, private, token, tempFile,
                  dest, backupFile, pushVars, concVars >>

NextRepull == Next \/ Repull

SpecRepull == InitTwice /\ [][NextRepull]_vars

-----------------------------------------------------------------------------
(* Pull beside another pull or push process in the same working directory.
   Both scripts use path.join(process.cwd(), '.cursor-rules-temp'). *)

\* what the other process's checkout may hold at options.path (another
\* branch or repository, or the file a push copied there)
OtherFiles == {t \in Texts : Len(t) = 1} \cup {Absent}

\* everything of the pull process but the temporary directory
ownVars == << pc, optVars, dest, original, backupFile, localVars, writes,
             endVars >>

\* the other command is started while this one starts
OtherStart ==
  /\ otherPc = "idle"
  /\ pc = "checkToken" /\ run = 1
  /\ otherPc' = "mktemp"
  /\ upstream' \in Texts \cup {Absent}
  /\ UNCHANGED << pullVars, pushVars, twiceVars >>

\* existsSync / rmSync / mkdirSync of the other process
OtherCreateTempDir ==
  /\ otherPc = "mktemp"
  /\ tempDir' = "fresh"
  /\ tempFile' = Absent
  /\ cloned' = FALSE
  /\ repoFile' = Absent
  /\ otherPc' = "clone"
  /\ UNCHANGED << ownVars, upstream, pushVars, twiceVars >>

\* git clone of the other process: refused when this process's checkout is
\* in the directory, and it may fail for its own reasons
OtherClone ==
  /\ otherPc = "clone"
  /\ \/ /\ ~(tempDir = "fresh" /\ cloned)
        /\ tempDir' = "other"
        /\ repoFile' \in OtherFiles
        /\ otherPc' = "work"
     \/ /\ otherPc' = "done"
        /\ UNCHANGED << tempDir, repoFile >>
  /\ UNCHANGED << ownVars, tempFile, cloned, upstream, pushVars, twiceVars >>

\* the other process ends: cleanup() in its finally block, or
\* process.exit(1) that skips it
OtherFinish ==
  /\ otherPc = "work"
  /\ otherPc' = "done"
  /\ \/ /\ tempDir' = "absent"
        /\ tempFile' = Absent
        /\ cloned' = FALSE
        /\ repoFile' = Absent
     \/ UNCHANGED << tempDir, tempFile, cloned, repoFile >>
  /\ UNCHANGED << ownVars, upstream, pushVars, twiceVars >>

NextConc ==
  \/ Next
  \/ OtherStart \/ OtherCreateTempDir \/ OtherClone \/ OtherFinish

SpecConc == InitTwice /\ [][NextConc]_vars

-----------------------------------------------------------------------------
(* The push command: top-level script *)

PushLines == {"", "A", "# T"}

PushTexts == UNION {[1..n -> PushLines] : n \in 1..MaxLen}

\* !content.trim()
IsBlank(text) == \A i \in 1..Len(text) : text[i] = ""

\* content.includes('# ') || content.includes('## ')
HasHeading(text) == \E i \in 1..Len(text) : text[i] = "# T"

\* the body of the pull request
prBody(modified) ==
  << "This PR updates cursor rules from local project.",
     "",
     "## Changes",
     "- Updated rules in (options.path)",
     IF modified THEN ""
     ELSE "- No content changes, but commit requested by user",
     "",
     "Automatically generated by the cursor-rules push script." >>

pushOptVars == << pushToken, pr >>
pushFsVars == << source, sourceAtStart, pushTempDir >>
pushRepoVars == << checkoutFile, fileModified, committed, pullRequest, events >>
pushEndVars == << pushOutcome, pushFailure, pushExit >>

\* the pull command is not running
PullIdle ==
  /\ pc = "idle"
  /\ mergeStrategy = "smart"
  /\ requested = "smart"
  /\ force = FALSE
  /\ backup = TRUE
  /\ private = FALSE
  /\ token = FALSE
  /\ tempDir = "absent"
  /\ tempFile = Absent
  /\ cloned = FALSE
  /\ repoFile = Absent
  /\ dest = Absent
  /\ original = Absent
  /\ backupFile = Absent
  /\ remoteContent = Absent
  /\ localContent = <<"">>
  /\ localFileExists = FALSE
  /\ conflict = FALSE
  /\ conflictRegions = 0
  /\ action = "none"
  /\ editedContent = Absent
  /\ writes = 0
  /\ outcome = "none"
  /\ failure = "none"
  /\ exitCode = -1

InitPush ==
  /\ PullIdle
  /\ OneRun
  /\ pushPc = "checkToken"
  /\ pushToken \in BOOLEAN
  /\ pr \in BOOLEAN
  /\ source \in PushTexts \cup {Absent}
  /\ sourceAtStart = source
  /\ pushTempDir \in {"absent", "stale"}
  /\ checkoutFile = Absent
  /\ fileModified = TRUE
  /\ committed = Absent
  /\ pullRequest = Absent
  /\ events = << >>
  /\ pushOutcome = "none"
  /\ pushFailure = "none"
  /\ pushExit = -1

\* process.exit(1): the process ends at once, no finally block runs
PushExit1(what, step) ==
  /\ pushPc' = "done"
  /\ pushExit' = 1
  /\ pushOutcome' = what
  /\ pushFailure' = step

\* the catch of main(): report and process.exit(1)
PushThrow(step) == PushExit1("error", step)

\* variant: the token is only needed to create the pull request
PushCheckTokenLate ==
  /\ pushPc = "checkToken"
  /\ pushPc' = "checkSource"
  /\ UNCHANGED << pushOptVars, pushFsVars, pushRepoVars, pushEndVars, pullVars, twiceVars, concVars >>

PushCheckToken ==
  /\ pushPc = "checkToken"
  /\ IF ~pushToken
       THEN PushExit1("tokenRequired", "options")
       ELSE pushPc' = "checkSource" /\ UNCHANGED pushEndVars
  /\ UNCHANGED << pushOptVars, pushFsVars, pushRepoVars, pullVars, twiceVars, concVars >>

PushCheckSource ==
  /\ pushPc = "checkSource"
  /\ IF source = Absent
       THEN PushExit1("sourceNotFound", "source")
       ELSE pushPc' = "validate" /\ UNCHANGED pushEndVars
  /\ UNCHANGED << pushOptVars, pushFsVars, pushRepoVars, pullVars, twiceVars, concVars >>

\* options.validate is always true: the option has no negated form
PushValidate ==
  /\ pushPc = "validate"
  /\ \/ \* the read throws, or the prompt is rejected
        PushExit1("validateError", "validate")
     \/ /\ IsBlank(source)
        /\ PushExit1("emptySource", "validate")
     \/ /\ ~IsBlank(source)
        /\ ~HasHeading(source)
        /\ \/ PushExit1("cancelled", "validate")
           \/ pushPc' = "mktemp" /\ UNCHANGED pushEndVars
     \/ /\ ~IsBlank(source)
        /\ HasHeading(source)
        /\ pushPc' = "mktemp"
        /\ UNCHANGED pushEndVars
  /\ UNCHANGED << pushOptVars, pushFsVars, pushRepoVars, pullVars, twiceVars, concVars >>

PushCreateTempDir ==
  /\ pushPc = "mktemp"
  /\ pushTempDir' = "fresh"
  /\ pushPc' = "clone"
  /\ UNCHANGED << pushOptVars, source, sourceAtStart, pushRepoVars,
                  pushEndVars, pullVars, twiceVars, concVars >>

-----------------------------------------------------------------------------
(* The push command: main() *)

PushClone ==
  /\ pushPc = "clone"
  /\ \/ /\ checkoutFile' \in PushTexts \cup {Absent}
        /\ events' = Append(events, "clone")
        /\ pushPc' = "checkout"
        /\ UNCHANGED pushEndVars
     \/ /\ PushThrow("clone")
        /\ UNCHANGED << checkoutFile, events >>
  /\ UNCHANGED << pushOptVars, pushFsVars, fileModified, committed,
                  pullRequest, pullVars, twiceVars, concVars >>

PushCheckout ==
  /\ pushPc = "checkout"
  /\ \/ /\ events' = Append(events, "checkout")
        /\ pushPc' = "branch"
        /\ UNCHANGED pushEndVars
     \/ /\ PushThrow("checkout")
        /\ UNCHANGED events
  /\ UNCHANGED << pushOptVars, pushFsVars, checkoutFile, fileModified,
                  committed, pullRequest, pullVars, twiceVars, concVars >>

PushCreateBranch ==
  /\ pushPc = "branch"
  /\ \/ /\ events' = Append(events, "branch")
        /\ pushPc' = "compare"
        /\ UNCHANGED pushEndVars
     \/ /\ PushThrow("branch")
        /\ UNCHANGED events
  /\ UNCHANGED << pushOptVars, pushFsVars, checkoutFile, fileModified,
                  committed, pullRequest, pullVars, twiceVars, concVars >>

\* cleanup() of the push script
pushCleanup == pushTempDir' = "absent"

\* variant: declining reports 'no changes' but does not return
PushUnchangedNoReturn ==
  /\ pushPc = "compare"
  /\ checkoutFile # Absent
  /\ checkoutFile = source
  /\ fileModified' = FALSE
  /\ \/ pushPc' = "copy" /\ UNCHANGED pushOutcome
     \/ pushPc' = "copy" /\ pushOutcome' = "noChanges"
  /\ UNCHANGED << pushOptVars, pushFsVars, checkoutFile, committed,
                  pullRequest, events, pushFailure, pushExit, pullVars, twiceVars, concVars >>

\* the file exists in the checkout with the content of the source: ask
PushUnchanged ==
  /\ pushPc = "compare"
  /\ checkoutFile # Absent
  /\ checkoutFile = source
  /\ fileModified' = FALSE
  /\ \/ \* forceCommit
        /\ pushPc' = "copy"
        /\ UNCHANGED << pushTempDir, pushEndVars >>
     \/ \* declined: 'No changes to commit', cleanup, return
        /\ pushOutcome' = "noChanges"
        /\ pushCleanup
        /\ pushExit' = 0
        /\ pushPc' = "done"
        /\ UNCHANGED pushFailure
     \/ /\ PushThrow("prompt")
        /\ UNCHANGED pushTempDir
  /\ UNCHANGED << pushOptVars, source, sourceAtStart, checkoutFile, committed,
                  pullRequest, events, pullVars, twiceVars, concVars >>

PushChanged ==
  /\ pushPc = "compare"
  /\ checkoutFile = Absent \/ checkoutFile # source
  /\ \/ pushPc' = "copy" /\ UNCHANGED pushEndVars
     \/ checkoutFile # Absent /\ PushThrow("read")
  /\ UNCHANGED << pushOptVars, pushFsVars, pushRepoVars, pullVars, twiceVars, concVars >>

\* variant: the copy goes from the checkout to the source
PushCopyBack ==
  /\ pushPc = "copy"
  /\ source' = IF checkoutFile # Absent THEN checkoutFile ELSE source
  /\ events' = Append(events, "copy")
  /\ pushPc' = "stage"
  /\ UNCHANGED << pushOptVars, sourceAtStart, pushTempDir, checkoutFile,
                  fileModified, committed, pullRequest, pushEndVars, pullVars, twiceVars, concVars >>

PushCopy ==
  /\ pushPc = "copy"
  /\ \/ /\ checkoutFile' = source
        /\ events' = Append(events, "copy")
        /\ pushPc' = "stage"
        /\ UNCHANGED pushEndVars
     \/ /\ PushThrow("copy")
        /\ UNCHANGED << checkoutFile, events >>
  /\ UNCHANGED << pushOptVars, pushFsVars, fileModified, committed,
                  pullRequest, pullVars, twiceVars, concVars >>

\* git config user.name / user.email, git add
PushStage ==
  /\ pushPc = "stage"
  /\ \/ pushPc' = "commit" /\ UNCHANGED pushEndVars
     \/ PushThrow("stage")
  /\ UNCHANGED << pushOptVars, pushFsVars, pushRepoVars, pullVars, twiceVars, concVars >>

\* git commit.  With unchanged content git has nothing to commit unless the
\* copied file differs in mode; its 'nothing to commit' goes to stdout and
\* may or may not reach error.message.
PushCommit ==
  /\ pushPc = "commit"
  /\ \/ /\ committed' = checkoutFile
        /\ events' = Append(events, "commit")
        /\ pushPc' = "push"
        /\ UNCHANGED pushEndVars
     \/ /\ ~fileModified
        /\ pushOutcome' = "nothingToCommit"
        /\ pushPc' = "finish"
        /\ UNCHANGED << committed, events, pushFailure, pushExit >>
     \/ /\ PushThrow("commit")
        /\ UNCHANGED << committed, events >>
  /\ UNCHANGED << pushOptVars, pushFsVars, checkoutFile, fileModified,
                  pullRequest, pullVars, twiceVars, concVars >>

PushPush ==
  /\ pushPc = "push"
  /\ \/ /\ events' = Append(events, "push")
        /\ pushPc' = "pr"
        /\ UNCHANGED pushEndVars
     \/ /\ PushThrow("push")
        /\ UNCHANGED events
  /\ UNCHANGED << pushOptVars, pushFsVars, checkoutFile, fileModified,
                  committed, pullRequest, pullVars, twiceVars, concVars >>

\* variant: the pull request is created whatever --no-pr says
PushCreatePRAlways ==
  /\ pushPc = "pr"
  /\ pullRequest' = prBody(fileModified)
  /\ events' = Append(events, "pr")
  /\ pushOutcome' = "prCreated"
  /\ pushPc' = "finish"
  /\ UNCHANGED << pushFailure, pushExit >>
  /\ UNCHANGED << pushOptVars, pushFsVars, checkoutFile, fileModified,
                  committed, pullVars, twiceVars, concVars >>

PushCreatePR ==
  /\ pushPc = "pr"
  /\ \/ /\ pr
        /\ pullRequest' = prBody(fileModified)
        /\ events' = Append(events, "pr")
        /\ pushOutcome' = "prCreated"
        /\ pushPc' = "finish"
        /\ UNCHANGED << pushFailure, pushExit >>
     \/ /\ pr
        /\ PushThrow("pr")
        /\ UNCHANGED << pullRequest, events >>
     \/ /\ ~pr
        /\ pushOutcome' = "pushed"
        /\ pushPc' = "finish"
        /\ UNCHANGED << pullRequest, events, pushFailure, pushExit >>
  /\ UNCHANGED << pushOptVars, pushFsVars, checkoutFile, fileModified,
                  committed, pullVars, twiceVars, concVars >>

\* the finally block of main()
PushFinish ==
  /\ pushPc = "finish"
  /\ pushCleanup
  /\ pushExit' = 0
  /\ pushPc' = "done"
  /\ UNCHANGED << pushOptVars, source, sourceAtStart, pushRepoVars,
                  pushOutcome, pushFailure, pullVars, twiceVars, concVars >>

NextPush ==
  \/ PushCheckToken \/ PushCheckSource \/ PushValidate \/ PushCreateTempDir
  \/ PushClone \/ PushCheckout \/ PushCreateBranch
  \/ PushUnchanged \/ PushChanged \/ PushCopy \/ PushStage \/ PushCommit
  \/ PushPush \/ PushCreatePR \/ PushFinish

SpecPush == InitPush /\ [][NextPush]_vars

-----------------------------------------------------------------------------
(* Properties *)

\* s occurs in t as the lines i .. i + Len(s) - 1
IsSubAt(t, s, i) ==
  /\ i >= 1
  /\ i + Len(s) - 1 <= Len(t)
  /\ \A k \in 1..Len(s) : t[i + k - 1] = s[k]

MarkerFree(t) == \A k \in 1..Len(t) : t[k] \notin Markers

\* a well-formed conflict block starts at line i of t: the two regions are
\* delimited by the three markers and hold no marker line themselves
BlockAt(t, i) ==
  /\ t[i] = RemoteMarker
  /\ \E j \in (i + 1)..Len(t) : \E k \in (j + 1)..Len(t) :
       /\ t[j] = MidMarker
       /\ t[k] = LocalMarker
       /\ \A x \in ((i + 1)..(k - 1)) \ {j} : t[x] \notin Markers

NumBlocks(t) == Cardinality({i \in 1..Len(t) : BlockAt(t, i)})

\* the run got as far as comparing an existing local file, without --force
Compared ==
  /\ localFileExists
  /\ ~force
  /\ failure = "none"
  /\ pc \notin {"checkToken", "validate", "mktemp", "clone", "checkout",
                "checkRemote", "readRemote", "readLocal"}

\* C1: when the local file exists, --force is not set and the remote content
\* equals the local content, no merge step is entered and the destination is
\* never written: it still holds the same text, and the run ends reporting
\* 'up to date' with exit code 0, whatever the merge strategy.
C1_FastPath ==
  (Compared /\ remoteContent = localContent) =>
     /\ dest = localContent
     /\ dest = original
     /\ writes = 0
     /\ ~conflict
     /\ action = "none"
     /\ pc \in {"backup", "compare", "done"}
     /\ (pc = "done" => outcome = "upToDate" /\ exitCode = 0)

C1_Witness ==
  /\ Compared
  /\ remoteContent = localContent
  /\ pc = "done"
  /\ outcome = "upToDate"
  /\ requested = "simple"
  /\ Len(dest) = 1

\* C2: under the simple strategy with remote # local the destination is
\* written with exactly remote, the separator comment, local: remote and
\* local are contiguous in it, in that order, and no conflict marker is added.
C2_Concatenate ==
  /\ (outcome = "mergedSimple") =>
       /\ requested = "simple"
       /\ remoteContent # localContent
       /\ Len(dest) = Len(remoteContent) + 4 + Len(localContent)
       /\ IsSubAt(dest, remoteContent, 1)
       /\ IsSubAt(dest, <<"", "# Local additions below",
                          "# ========================================", "">>,
                  Len(remoteContent) + 1)
       /\ IsSubAt(dest, localContent, Len(remoteContent) + 5)
       /\ localContent = original
       /\ ~conflict
       /\ \A k \in 1..Len(dest) : dest[k] \notin {RemoteMarker, LocalMarker}
       /\ writes = 1
  /\ (Compared /\ requested = "simple" /\ remoteContent # localContent
        /\ pc = "done") => outcome = "mergedSimple"

C2_Witness ==
  /\ outcome = "mergedSimple"
  /\ pc = "done"
  /\ remoteContent = <<"A", "">>
  /\ localContent = <<"=======">>

\* C3 as stated: whenever the smart merge reports a conflict, the written
\* text is non-empty, holds at least one well-formed block, and the number
\* of well-formed blocks equals the number of conflict regions.
C3_Original ==
  (outcome = "conflictMarkers") =>
     /\ Len(dest) > 0
     /\ NumBlocks(dest) >= 1
     /\ NumBlocks(dest) = conflictRegions

\* C3 amended: whenever the smart merge reports a conflict, the written text
\* is the single block REMOTE marker, whole remote text, =======, whole local
\* text, LOCAL marker, newline; and when neither text holds a marker line it
\* has exactly one well-formed block, the number of conflict regions.
C3_ConflictBlock ==
  (outcome = "conflictMarkers") =>
     /\ conflict
     /\ writes = 1
     /\ Len(dest) = Len(remoteContent) + Len(localContent) + 4
     /\ dest[1] = RemoteMarker
     /\ IsSubAt(dest, remoteContent, 2)
     /\ dest[Len(remoteContent) + 2] = MidMarker
     /\ IsSubAt(dest, localContent, Len(remoteContent) + 3)
     /\ dest[Len(dest) - 1] = LocalMarker
     /\ dest[Len(dest)] = ""
     /\ (MarkerFree(remoteContent) /\ MarkerFree(localContent)) =>
          /\ NumBlocks(dest) = 1
          /\ conflictRegions = 1

C3_Witness ==
  /\ outcome = "conflictMarkers"
  /\ pc = "done"
  /\ remoteContent = <<"A", "X", "C">>
  /\ localContent = <<"A", "Z", "C">>
  /\ NumBlocks(dest) = 1

\* the smart strategy merged and wrote its result (clean or with markers)
SmartWritten == outcome \in {"mergedSmart", "conflictMarkers"}

\* C4: the three-way merge takes the last synced text as ancestor, so that
\* changes made on one side only apply cleanly: with last synced "A\nB\nC",
\* remote "A\nX\nC" and local "A\nB\nY" the smart strategy writes "A\nX\nY"
\* and reports no conflict; in general, whenever the merge against the
\* ancestor is clean, its result is written without conflict markers.
C4_BaseMerge ==
  /\ (SmartWritten /\ remoteContent = <<"A", "X", "C">>
        /\ localContent = <<"A", "B", "Y">>) =>
       (dest = <<"A", "X", "Y">> /\ ~conflict)
  /\ (SmartWritten /\ remoteContent \in ScenarioTexts
        /\ localContent \in ScenarioTexts
        /\ ~ThreeWayMerge(ScenarioBase, remoteContent, localContent).conflict) =>
       /\ dest = ThreeWayMerge(ScenarioBase, remoteContent, localContent).result
       /\ MarkerFree(dest)

\* C5: when remote and local change the same line differently, there is one
\* conflict region holding only the diverging span: with remote "A\nX\nC"
\* and local "A\nZ\nC" the block holds X and Z, and the unchanged lines A and
\* C stand outside the block, in order.
C5_DivergingSpan ==
  (SmartWritten /\ remoteContent = <<"A", "X", "C">>
     /\ localContent = <<"A", "Z", "C">>) =>
     /\ conflict
     /\ conflictRegions = 1
     /\ dest = <<"A", RemoteMarker, "X", MidMarker, "Z", LocalMarker, "C">>

\* C6: a run asked for the manual strategy, with differing contents, never
\* ends successfully without a collected decision or a clean merge result.
C6_ManualDecides ==
  (/\ pc = "done"
   /\ exitCode = 0
   /\ requested = "manual"
   /\ localFileExists
   /\ ~force
   /\ remoteContent # localContent) =>
     (action \in Actions \/ outcome = "mergedSmart")

\* C7: once the decision prompt is answered, 'remote' leaves the destination
\* equal to the remote text, 'local' leaves it equal to the original local
\* text and writes nothing, 'concat' leaves it equal to the text of the
\* simple strategy for the same remote and local; the run then ends with
\* exit code 0 unless the write itself fails.
C7_ApplyDecision ==
  /\ (outcome = "keptRemote") =>
       (action = "remote" /\ dest = remoteContent /\ writes = 1)
  /\ (outcome = "keptLocal") =>
       (action = "local" /\ dest = original /\ dest = localContent
          /\ writes = 0)
  /\ (outcome = "concatenated") =>
       /\ action = "concat"
       /\ writes = 1
       /\ dest = remoteContent \o <<"", "# Local additions below",
                   "# ========================================", "">>
                   \o localContent
       /\ dest = concatContent(remoteContent, localContent)
  /\ (pc = "done" /\ action \in {"remote", "local", "concat"}) =>
       \/ /\ exitCode = 0
          /\ outcome = CASE action = "remote" -> "keptRemote"
                         [] action = "local" -> "keptLocal"
                         [] action = "concat" -> "concatenated"
       \/ /\ exitCode = 1
          /\ failure = "write"
          /\ action # "local"
          /\ dest = original

C7_Witness ==
  /\ pc = "done"
  /\ exitCode = 0
  /\ outcome = "keptRemote"
  /\ remoteContent = <<"A", "">>
  /\ original = <<"A">>

HasSentinel(doc) == \E i \in 1..Len(doc) : doc[i] = SentinelHeading

\* what follows the sentinel heading and its rule line
AfterSentinel(doc) ==
  LET i == CHOOSE k \in 1..Len(doc) : doc[k] = SentinelHeading
  IN SubSeq(doc, i + 2, Len(doc))

\* C8: after the user confirms the edit, the text written to the destination
\* is what follows the sentinel heading of the edited document; when the
\* heading is missing nothing is written and the run fails.
C8_SentinelParse ==
  /\ (pc = "finish" /\ outcome = "manualDone") =>
       (HasSentinel(tempFile) /\ dest = AfterSentinel(tempFile))
  /\ (pc = "finish" /\ action = "manual" /\ tempFile # Absent
        /\ ~HasSentinel(tempFile)) => writes = 0

\* C9: with a merge strategy other than simple, smart or manual the run ends
\* with exit code 1 before any side effect: no temp directory is created,
\* nothing is cloned, no backup is made, the destination is not written.
C9_InvalidStrategy ==
  (requested \notin {"simple", "smart", "manual"}) =>
     /\ pc \in {"checkToken", "validate", "done"}
     /\ tempDir # "fresh"
     /\ ~cloned
     /\ backupFile = Absent
     /\ dest = original
     /\ writes = 0
     /\ (pc = "done" =>
           /\ exitCode = 1
           /\ outcome \in {"invalidStrategy", "tokenRequired"}
           /\ (outcome = "tokenRequired" => private /\ ~token))

C9_Witness ==
  /\ pc = "done"
  /\ outcome = "invalidStrategy"
  /\ requested = "auto"
  /\ original # Absent
  /\ tempDir = "stale"

\* C10: when a step of the run fails, the destination holds its original
\* content or one whole merged text, it was written at most once, and the
\* run ends with a non-success exit code.
C10_LastGoodOnError ==
  (pc = "done" /\ failure # "none") =>
     /\ exitCode = 1
     /\ writes <= 1
     /\ (writes = 0 => dest = original)

\* C11: a filesystem error raised while the smart strategy writes its
\* result ends the run as an error: the strategy is not switched and no
\* decision prompt is shown.
C11_WriteErrorPropagates ==
  (requested = "smart" /\ failure = "write") =>
     /\ pc = "done"
     /\ exitCode = 1
     /\ mergeStrategy = "smart"
     /\ action = "none"

\* C12: when no local file exists, or --force is given, a successful run
\* leaves the destination equal to the remote content, for every strategy
\* and every prior local content, with no merge, separator or marker.
C12_OverwriteIsRemote ==
  (pc \in {"finish", "done"} /\ exitCode # 1 /\ (original = Absent \/ force)) =>
     /\ dest = remoteContent
     /\ dest = repoFile
     /\ writes = 1
     /\ outcome = (IF original = Absent THEN "created" ELSE "overwrote")
     /\ ~conflict
     /\ action = "none"

C12_Witness ==
  /\ pc = "done"
  /\ exitCode = 0
  /\ force
  /\ requested = "simple"
  /\ original = <<"A", "=======">>
  /\ dest = <<"A">>

\* the run is past the backup step
PastBackup ==
  \/ pc \in {"compare", "prompt", "apply", "editor", "confirm", "finish"}
  \/ pc = "done" /\ exitCode = 0

\* C13: a backup is made exactly when the local file exists and --no-backup
\* is not given; it holds the original local content and exists before the
\* destination is written, so whenever the destination differs from the
\* original local content the backup with that content exists.
C13_BackupBeforeWrite ==
  /\ (backupFile # Absent) =>
       (original # Absent /\ backup /\ backupFile = original)
  /\ (PastBackup /\ original # Absent /\ backup) => backupFile = original
  /\ (backup /\ original # Absent /\ (dest # original \/ writes > 0)) =>
       backupFile = original

C13_Witness ==
  /\ backup
  /\ original = <<"A">>
  /\ backupFile = <<"A">>
  /\ dest # original
  /\ pc = "done"

\* C18: on every terminating path after the temp directory was created, the
\* temp directory no longer exists when the process ends.
C18_TempReleased ==
  (pc = "done" /\ outcome \notin {"tokenRequired", "invalidStrategy"}) =>
     tempDir = "absent"

\* C19: when the three-way merge of the smart strategy throws, the run is
\* not aborted: it switches to the interactive flow and prompts, and the
\* destination keeps the original local content until the decision is
\* applied.
C19_SmartFallback ==
  (requested = "smart" /\ failure = "merge") =>
     /\ mergeStrategy = "manual"
     /\ pc \in {"prompt", "apply", "editor", "confirm", "finish", "done"}
     /\ (pc \in {"prompt", "apply", "editor", "confirm"} =>
           /\ dest = original
           /\ writes = 0
           /\ exitCode = -1)
     /\ (pc \in {"finish", "done"} =>
           /\ action \in Actions
           /\ exitCode # 1
           /\ (dest # original => writes = 1))

C19_Witness ==
  /\ requested = "smart"
  /\ failure = "merge"
  /\ pc = "apply"
  /\ action = "concat"
  /\ dest = original

-----------------------------------------------------------------------------
(* Properties of push *)

\* C15: without a token (neither --token nor GITHUB_TOKEN) push ends with
\* an error before any side effect: no temp directory is created and no
\* clone, branch, commit, push or pull request happens.
C15_PushNeedsToken ==
  (pushPc # "idle" /\ ~pushToken) =>
     /\ pushPc \in {"checkToken", "done"}
     /\ pushTempDir # "fresh"
     /\ events = << >>
     /\ checkoutFile = Absent
     /\ committed = Absent
     /\ pullRequest = Absent
     /\ source = sourceAtStart
     /\ (pushPc = "done" => pushExit = 1 /\ pushOutcome = "tokenRequired")

C15_Witness ==
  /\ pushPc = "done"
  /\ ~pushToken
  /\ pushOutcome = "tokenRequired"
  /\ source = <<"# T">>
  /\ pushTempDir = "stale"

PushOrder == <<"clone", "checkout", "branch", "copy", "commit", "push", "pr">>

\* C16: the operations of a push run happen only in the order clone,
\* checkout of the base branch, new branch, copy, commit, push, pull
\* request; a pull request is created only after a successful push, and
\* never with --no-pr, even though the branch is pushed.
C16_PushOrder ==
  /\ Len(events) <= Len(PushOrder)
  /\ \A i \in 1..Len(events) : events[i] = PushOrder[i]
  /\ (pullRequest # Absent) =>
       (pr /\ Len(events) = 7 /\ events[6] = "push" /\ committed # Absent)
  /\ (Len(events) = 7) => pullRequest # Absent
  /\ (pushOutcome = "pushed") =>
       (~pr /\ Len(events) = 6 /\ events[6] = "push" /\ pullRequest = Absent)
  /\ ~pr => pullRequest = Absent

C16_Witness ==
  /\ pushPc = "done"
  /\ pushExit = 0
  /\ ~pr
  /\ pushOutcome = "pushed"
  /\ events = <<"clone", "checkout", "branch", "copy", "commit", "push">>

\* C17: no step of push writes the local source file, and the file
\* committed at the repository path equals the local source content,
\* whatever the repository held before.
C17_PushOneWay ==
  /\ source = sourceAtStart
  /\ (committed # Absent) => (committed = source /\ checkoutFile = source)
  /\ (Len(events) >= 4) => checkoutFile = source

C17_Witness ==
  /\ committed = <<"# T", "A">>
  /\ fileModified
  /\ Len(events) >= 5
  /\ events[5] = "commit"
  /\ source = sourceAtStart

NoChangesLine == "- No content changes, but commit requested by user"

\* C20: when the file in the checkout equals the local source and the
\* user declines to commit anyway, push ends successfully without copy,
\* commit, push or pull request; when the user accepts, the body of a
\* created pull request says that there are no content changes.
C20_PushUnchanged ==
  /\ (pushOutcome = "noChanges") =>
       /\ pushPc = "done"
       /\ pushExit = 0
       /\ ~fileModified
       /\ checkoutFile = source
       /\ events = <<"clone", "checkout", "branch">>
       /\ committed = Absent
       /\ pullRequest = Absent
  /\ (pullRequest # Absent) =>
       (~fileModified <=>
          \E i \in 1..Len(pullRequest) : pullRequest[i] = NoChangesLine)
  /\ (~fileModified /\ Len(events) >= 4) => committed \in {Absent, source}

C20_Witness ==
  /\ pushOutcome = "noChanges"
  /\ pushPc = "done"
  /\ source = <<"# T", "A">>
  /\ checkoutFile = <<"# T", "A">>

-----------------------------------------------------------------------------
(* Properties of two runs *)

\* the second run read the same remote content, got the same answers from
\* the user and met the same failures of its collaborators (as told by the
\* failing step and the report of the run) as the first
SameRun ==
  /\ run = 2
  /\ pc = "done"
  /\ remoteContent = first.remoteContent
  /\ action = first.action
  /\ editedContent = first.editedContent
  /\ outcome = first.outcome
  /\ failure = first.failure
  /\ exitCode = first.exitCode

BothPulled ==
  /\ run = 2
  /\ pc = "done"
  /\ first.exitCode = 0 /\ first.failure = "none"
  /\ exitCode = 0 /\ failure = "none"
  /\ remoteContent = first.remoteContent

\* C21: a second pull with the remote content unchanged since the first pull
\* leaves the destination content exactly as the first pull left it, for
\* every merge strategy.
C21_Idempotent == BothPulled => dest = first.dest


\* C22: a pull running beside another pull or push in the same working
\* directory keeps its checkout while it reads from it, and ends with the
\* result it would have alone: it reads the file its repository holds, and
\* reports a missing remote file only when the repository has none.
C22_NoInterference ==
  otherPc # "idle" =>
    /\ pc \in {"checkout", "checkRemote", "readRemote"} =>
         (tempDir = "fresh" /\ cloned /\ repoFile = upstream)
    /\ (pc = "done" /\ remoteContent # Absent) => remoteContent = upstream
    /\ (pc = "done" /\ outcome = "remoteNotFound") => upstream = Absent

====
